---- MODULE Spec2Model ----
(***************************************************************************)
(* VectorCheck API (src/main.py): the page classifier                      *)
(* analyze_vector_content and the /vector-check request handler             *)
(* vector_check, as a state machine.                                        *)
(*                                                                         *)
(* Text is modelled as a sequence of tokens; a decimal number inside a     *)
(* text is one token per digit, so that Python's substring test            *)
(* ("404" in str(e)) is a search for the digit tokens <<"4","0","4">>.     *)
(* An optional value is None (the empty tuple) or Some(x) (a 1-tuple).     *)
(***************************************************************************)
EXTENDS Integers, Sequences, FiniteSets, TLC

VARIABLES
    pc,                     \* position of the request handler
    pdf_url,                \* query parameter pdf_url
    original_page_number,   \* query parameter original_page_number (None or Some(n))
    source,                 \* what the remote server does for this URL
    exc,                    \* the exception in flight inside the try block
    response,               \* the HTTP response of the endpoint
    tmp_exists,             \* the NamedTemporaryFile still exists on disk
    tmp_path,               \* local tmp_path (None or Some(name))
    total_size,             \* local total_size of the streaming loop
    pages,                  \* pdf.pages as delivered by pdfplumber
    page_num,               \* loop index of enumerate(pdf.pages)
    page,                   \* the page under analysis
    analysis,               \* the value returned by analyze_vector_content
    result                  \* local result, the list of page reports

vars == <<pc, pdf_url, original_page_number, source, exc, response, tmp_exists,
          tmp_path, total_size, pages, page_num, page, analysis, result>>

None == <<>>
Some(x) == <<x>>

-----------------------------------------------------------------------------
(* Bounds of the model *)

MaxLines == 12
MaxCurves == 5
MaxRects == 4
MaxPages == 2

(* Program constants *)

MAX_FILE_SIZE == 52428800
CHUNK_SIZE == 8192
MIN_VECTOR_ELEMENTS == 5
MIN_COMPLEX_SHAPES == 2
RETRY_TOTAL == 3

-----------------------------------------------------------------------------
(* analyze_vector_content *)

\* A page whose text or primitive extraction raises: no count is ever taken.
Faulted(p) == "fault" \in DOMAIN p

\* total_vector_elements / (text_length / 100), or total_vector_elements when
\* there is no text; kept as an exact fraction num/den.
graphics_to_text_ratio(total_vector_elements, text_length) ==
    IF text_length > 0
    THEN [num |-> total_vector_elements * 100, den |-> text_length]
    ELSE [num |-> total_vector_elements, den |-> 1]

\* ratio > n/d and ratio < n/d for a fraction with a positive denominator
RatioGreater(ratio, n, d) == ratio.num * d > n * ratio.den
RatioLess(ratio, n, d) == ratio.num * d < n * ratio.den

has_graphics_rects_nonneg(line_count, curve_count, rect_count) ==
    line_count > 0 \/ curve_count > 0 \/ rect_count >= 0

has_graphics(line_count, curve_count, rect_count) ==
    line_count > 0 \/ curve_count > 0 \/ rect_count > 0

is_illustration(total_vector_elements, ratio, text_length) ==
    /\ total_vector_elements >= MIN_VECTOR_ELEMENTS
    /\ (RatioGreater(ratio, 1, 2) \/ text_length < 200)

is_technical_drawing_strict(line_count, complex_shapes) ==
    /\ line_count > 10
    /\ complex_shapes >= MIN_COMPLEX_SHAPES

is_technical_drawing(line_count, complex_shapes) ==
    /\ line_count >= 10
    /\ complex_shapes >= MIN_COMPLEX_SHAPES

is_complex_graphics(curve_count, line_count) ==
    curve_count >= 5 \/ (curve_count >= 2 /\ line_count >= 5)

is_diagram(rect_count, line_count, total_vector_elements) ==
    /\ rect_count >= 3
    /\ line_count >= 3
    /\ total_vector_elements >= 8

likely_layout_only_ratio_1pct(total_vector_elements, text_length, ratio) ==
    /\ total_vector_elements < 5
    /\ text_length > 500
    /\ RatioLess(ratio, 1, 100)

likely_layout_only(total_vector_elements, text_length, ratio) ==
    /\ total_vector_elements < 5
    /\ text_length > 500
    /\ RatioLess(ratio, 1, 10)

\* the list vector_type, appended to in the order of the four tests
vector_type_list(illustration, technical, complex, diagram) ==
    (IF illustration THEN <<"illustration">> ELSE <<>>)
    \o (IF technical THEN <<"technical_drawing">> ELSE <<>>)
    \o (IF complex THEN <<"complex_graphics">> ELSE <<>>)
    \o (IF diagram THEN <<"diagram">> ELSE <<>>)

\* ', '.join(items), one token per item and per separator
RECURSIVE Join(_)
Join(items) ==
    IF Len(items) = 0 THEN <<>>
    ELSE IF Len(items) = 1 THEN <<items[1]>>
    ELSE <<items[1], ", ">> \o Join(Tail(items))

\* The counts the text-only return reports.
base_elements(p) ==
    [text_chars |-> p.chars, lines |-> p.lines, curves |-> p.curves,
     rectangles |-> p.rects, text_length |-> p.text_length]

\* The two later returns also report round(graphics_to_text_ratio, 2). The key
\* is modelled, the rounded float is not: it is the opaque value below.
ROUNDED_RATIO == "round(graphics_to_text_ratio, 2)"

analyze_vector_content(p) ==
    IF Faulted(p)
    THEN [is_vector |-> FALSE,
          reason |-> <<"Error analyzing content: ", p.fault>>,
          vector_elements |-> [error |-> p.fault]]
    ELSE
    LET line_count == p.lines
        curve_count == p.curves
        rect_count == p.rects
        text_length == p.text_length
        total_vector_elements == line_count + curve_count + rect_count
        complex_shapes == curve_count + rect_count
        ratio == graphics_to_text_ratio(total_vector_elements, text_length)
        illustration == is_illustration(total_vector_elements, ratio, text_length)
        technical == is_technical_drawing(line_count, complex_shapes)
        complex == is_complex_graphics(curve_count, line_count)
        diagram == is_diagram(rect_count, line_count, total_vector_elements)
        is_vector == illustration \/ technical \/ complex \/ diagram
        vector_type == vector_type_list(illustration, technical, complex, diagram)
    IN  IF ~has_graphics(line_count, curve_count, rect_count)
        THEN [is_vector |-> FALSE,
              reason |-> <<"No vector graphics found - text only">>,
              vector_elements |-> base_elements(p)]
        ELSE IF likely_layout_only(total_vector_elements, text_length, ratio)
        THEN [is_vector |-> FALSE,
              reason |-> <<"Likely layout elements only, not vector illustrations">>,
              vector_elements |->
                  [text_chars |-> p.chars, lines |-> p.lines, curves |-> p.curves,
                   rectangles |-> p.rects, text_length |-> p.text_length,
                   graphics_to_text_ratio |-> ROUNDED_RATIO]]
        ELSE [is_vector |-> is_vector,
              vector_type |-> IF is_vector THEN Some(vector_type) ELSE None,
              reason |-> IF is_vector
                         THEN <<"Vector content detected: ">> \o Join(vector_type)
                         ELSE <<"No significant vector content">>,
              vector_elements |->
                  [text_chars |-> p.chars, lines |-> p.lines, curves |-> p.curves,
                   rectangles |-> p.rects, text_length |-> p.text_length,
                   total_vector_elements |-> total_vector_elements,
                   graphics_to_text_ratio |-> ROUNDED_RATIO]]

\* analysis.get("vector_type")
GetVectorType(a) ==
    IF "vector_type" \in DOMAIN a THEN a.vector_type ELSE None

-----------------------------------------------------------------------------
(* Inputs of the classifier: every combination of primitive counts up to   *)
(* the bounds, with text lengths on and around each threshold of the code. *)

TextLengths ==
    {0, 1, 50, 199, 200, 201, 300, 499, 500, 501, 600}
    \cup {1000 * t + d : t \in 1..4, d \in {-1, 0, 1}}
    \cup {200 * t + d : t \in {5, 8, 12}, d \in {-1, 0, 1}}

CharCounts == {0, 50}

Metrics(l, c, r, ch, tl) ==
    [lines |-> l, curves |-> c, rects |-> r, chars |-> ch, text_length |-> tl]

PageGrid ==
    {Metrics(l, c, r, ch, tl) :
        l \in 0..MaxLines, c \in 0..MaxCurves, r \in 0..MaxRects,
        ch \in CharCounts, tl \in TextLengths}

NoAnalysis == [is_vector |-> FALSE, reason |-> <<>>, vector_elements |-> <<>>]
NoResponse == [status |-> 0, detail |-> <<>>, success |-> FALSE, page_count |-> 0,
               vector_pages_count |-> 0, vector_pages |-> <<>>, pages |-> <<>>]
NoSource == [fault |-> "none", flaky |-> 0, status |-> 200,
             content_length |-> None, body_len |-> 0]
NoException == [cls |-> "none", msg |-> <<>>, status |-> 0]

InitClassify ==
    /\ pc = "analyze"
    /\ page \in PageGrid
    /\ analysis = NoAnalysis
    /\ pdf_url = <<>>
    /\ original_page_number = None
    /\ source = NoSource
    /\ exc = NoException
    /\ response = NoResponse
    /\ tmp_exists = FALSE
    /\ tmp_path = None
    /\ total_size = 0
    /\ pages = <<>>
    /\ page_num = 0
    /\ result = <<>>

Classify ==
    /\ pc = "analyze"
    /\ analysis' = analyze_vector_content(page)
    /\ pc' = "analyzed"
    /\ UNCHANGED <<pdf_url, original_page_number, source, exc, response, tmp_exists,
                   tmp_path, total_size, pages, page_num, page, result>>

NextClassify == Classify

SpecClassify == InitClassify /\ [][NextClassify]_vars

-----------------------------------------------------------------------------
(* Text helpers *)

DigitTokens == <<"0", "1", "2", "3", "4", "5", "6", "7", "8", "9">>

\* str(n) for a natural number, one token per decimal digit
RECURSIVE Digits(_)
Digits(n) ==
    IF n < 10 THEN <<DigitTokens[n + 1]>>
    ELSE Digits(n \div 10) \o <<DigitTokens[(n % 10) + 1]>>

\* sub in text
Contains(text, sub) ==
    \E i \in 0..(Len(text) - Len(sub)) :
        \A j \in 1..Len(sub) : text[i + j] = sub[j]

-----------------------------------------------------------------------------
(* is_valid_url *)

\* urlparse(url).scheme: the text before "://", empty when there is none
Scheme(url) ==
    IF Len(url) >= 2 /\ url[2] = "://" THEN url[1] ELSE ""

is_valid_url(url) == Scheme(url) \in {"http", "https"}

-----------------------------------------------------------------------------
(* Exceptions. An exception is [cls, msg, status]: its class, str(e), and   *)
(* the status_code of an HTTPException (0 for the other classes).           *)

TimeoutClasses == {"ConnectTimeout", "ReadTimeout"}
ConnectionErrorClasses == {"ConnectionError", "ConnectTimeout"}
RequestExceptionClasses ==
    TimeoutClasses \cup ConnectionErrorClasses
    \cup {"HTTPError", "RetryError", "ChunkedEncodingError"}

Raise(cls, msg) == [cls |-> cls, msg |-> msg, status |-> 0]

\* raise HTTPException(status_code=..., detail=...); str(e) is "<status>: <detail>"
HTTPException(status_code, detail) ==
    [cls |-> "HTTPException",
     msg |-> Digits(status_code) \o <<": ">> \o detail,
     status |-> status_code]

ErrorResponse(status_code, detail) ==
    [NoResponse EXCEPT !.status = status_code, !.detail = detail]

-----------------------------------------------------------------------------
(* create_session_with_retries and session.get *)

status_forcelist == {429, 500, 502, 503, 504}

\* The status the server answers on attempt n (0 is the first request): 503
\* for the first source.flaky attempts, source.status from then on.
Answer(src, n) == IF n < src.flaky THEN 503 ELSE src.status

\* Retry(total=3, status_forcelist=...): an answer in status_forcelist is
\* retried while retries are left, and raises RetryError when none is.
RECURSIVE Attempt(_, _, _)
Attempt(src, url, n) ==
    IF Answer(src, n) \in status_forcelist
    THEN IF n >= RETRY_TOTAL
         THEN [raised |-> TRUE,
               exc |-> Raise("RetryError",
                             <<"Max retries exceeded with url: ">> \o url
                             \o <<" (Caused by ResponseError('too many ">>
                             \o Digits(Answer(src, n)) \o <<" error responses'))">>),
               status_code |-> 0]
         ELSE Attempt(src, url, n + 1)
    ELSE [raised |-> FALSE, exc |-> NoException, status_code |-> Answer(src, n)]

\* session.get(pdf_url, stream=True, timeout=(10, 60), ...)
SessionGet(src, url) ==
    IF src.fault = "connect_timeout"
    THEN [raised |-> TRUE, status_code |-> 0,
          exc |-> Raise("ConnectTimeout", <<"Connection to host timed out">>)]
    ELSE IF src.fault = "read_timeout"
    THEN [raised |-> TRUE, status_code |-> 0,
          exc |-> Raise("ReadTimeout", <<"Read timed out">>)]
    ELSE IF src.fault = "connection"
    THEN [raised |-> TRUE, status_code |-> 0,
          exc |-> Raise("ConnectionError", <<"Failed to establish a new connection">>)]
    ELSE Attempt(src, url, 0)

\* response.raise_for_status(): HTTPError for a status of 400 to 599
RaisesForStatus(status_code) == status_code >= 400 /\ status_code < 600

HTTPErrorFor(status_code, url) ==
    Raise("HTTPError",
          Digits(status_code)
          \o <<IF status_code < 500 THEN " Client Error" ELSE " Server Error">>
          \o <<" for url: ">> \o url)

-----------------------------------------------------------------------------
(* The except clauses of vector_check, in their order *)

ExceptClauses(e) ==
    IF e.cls \in TimeoutClasses
    THEN ErrorResponse(408, <<"Request timeout - PDF download took too long">>)
    ELSE IF e.cls \in ConnectionErrorClasses
    THEN ErrorResponse(502, <<"Connection error - Could not connect to PDF URL">>)
    ELSE IF e.cls \in RequestExceptionClasses
    THEN IF Contains(e.msg, <<"4", "0", "3">>)
         THEN ErrorResponse(403, <<"PDF URL access forbidden - URL may be expired or invalid">>)
         ELSE IF Contains(e.msg, <<"4", "0", "4">>)
         THEN ErrorResponse(404, <<"PDF not found at the provided URL">>)
         ELSE ErrorResponse(400, <<"Failed to download PDF: ">> \o e.msg)
    ELSE ErrorResponse(500, <<"Unexpected error: ">> \o e.msg)

-----------------------------------------------------------------------------
(* Inputs of a request *)

UrlPlain == <<"http", "://", "host", "/", "a", ".pdf">>
Url404 == <<"https", "://", "host", "/", "doc", "4", "0", "4", ".pdf">>
Url403 == <<"http", "://", "host", "/", "4", "0", "3", "/", "a", ".pdf">>
UrlFtp == <<"ftp", "://", "host", "/", "a", ".pdf">>
UrlNoScheme == <<"host", "/", "a", ".pdf">>

Urls == {UrlPlain, Url404, Url403, UrlFtp, UrlNoScheme}

OriginalPageNumbers == {None, Some(0), Some(7)}

\* The server does not answer, or refuses the connection.
FaultSources ==
    {[NoSource EXCEPT !.fault = f] :
        f \in {"connect_timeout", "read_timeout", "connection"}}

\* The server answers an error status, at once or after transient 503s.
StatusSources ==
    {[NoSource EXCEPT !.flaky = k, !.status = s] :
        k \in {0, RETRY_TOTAL, RETRY_TOTAL + 1}, s \in {401, 403, 404, 410, 500}}

\* The server answers 200 with a body below the ceiling; Content-Length is
\* absent, or states the body, or states more than the ceiling.
BodySources ==
    {[NoSource EXCEPT !.flaky = k, !.content_length = cl, !.body_len = n] :
        k \in {0, RETRY_TOTAL, RETRY_TOTAL + 1},
        cl \in {None, Some(100), Some(MAX_FILE_SIZE), Some(MAX_FILE_SIZE + 1)},
        n \in {0, 100, CHUNK_SIZE + 1}}

\* The server answers 200 with a body at or one byte over the ceiling;
\* Content-Length is absent or understates the streamed bytes.
BigSources ==
    {[NoSource EXCEPT !.content_length = cl, !.body_len = n] :
        cl \in {None, Some(100)}, n \in {MAX_FILE_SIZE, MAX_FILE_SIZE + 1}}

\* What pdfplumber may deliver as the pages of the downloaded document.
PageSamples ==
    {Metrics(0, 0, 0, 50, 300),      \* text only
     Metrics(2, 0, 1, 50, 4001),     \* layout lines in running text
     Metrics(12, 3, 1, 50, 50),      \* a technical drawing
     Metrics(2, 0, 1, 50, 600),      \* a few primitives, no category
     [fault |-> "corrupted page data"]}

RECURSIVE SeqsUpTo(_, _)
SeqsUpTo(S, n) ==
    IF n = 0 THEN {<<>>}
    ELSE LET shorter == SeqsUpTo(S, n - 1)
         IN  shorter \cup {Append(d, x) : d \in shorter, x \in S}

Documents == SeqsUpTo(PageSamples, MaxPages)

-----------------------------------------------------------------------------
(* vector_check *)

Init ==
    /\ pc = "start"
    /\ \/ /\ pdf_url \in Urls
          /\ original_page_number \in OriginalPageNumbers
          /\ source \in FaultSources \cup StatusSources \cup BodySources
       \/ /\ pdf_url = UrlPlain
          /\ original_page_number = None
          /\ source \in BigSources
    /\ exc = NoException
    /\ response = NoResponse
    /\ tmp_exists = FALSE
    /\ tmp_path = None
    /\ total_size = 0
    /\ pages = <<>>
    /\ page_num = 0
    /\ page = None
    /\ analysis = NoAnalysis
    /\ result = <<>>

\* raise inside the try block: control goes to the except clauses
RaiseInTry(e) ==
    /\ exc' = e
    /\ pc' = "except"

\* lines 199-202: the URL check, before the try block
ValidateUrl ==
    /\ pc = "start"
    /\ IF ~is_valid_url(pdf_url)
       THEN /\ response' = ErrorResponse(400, <<"Invalid URL format">>)
            /\ pc' = "done"
       ELSE /\ pc' = "get"
            /\ UNCHANGED response
    /\ UNCHANGED <<pdf_url, original_page_number, source, exc, tmp_exists, tmp_path,
                   total_size, pages, page_num, page, analysis, result>>

\* lines 206-220: session.get
Download ==
    /\ pc = "get"
    /\ LET got == SessionGet(source, pdf_url)
       IN  IF got.raised
           THEN RaiseInTry(got.exc)
           ELSE /\ pc' = "status"
                /\ UNCHANGED exc
    /\ UNCHANGED <<pdf_url, original_page_number, source, response, tmp_exists,
                   tmp_path, total_size, pages, page_num, page, analysis, result>>

\* lines 222-228: the response status check
CheckStatus ==
    /\ pc = "status"
    /\ LET status_code == SessionGet(source, pdf_url).status_code
       IN  IF status_code = 403
           THEN RaiseInTry(HTTPException(403,
                    <<"PDF URL access forbidden - URL may be expired">>))
           ELSE IF status_code = 404
           THEN RaiseInTry(HTTPException(404, <<"PDF not found at the provided URL">>))
           ELSE IF RaisesForStatus(status_code)
           THEN RaiseInTry(HTTPErrorFor(status_code, pdf_url))
           ELSE /\ pc' = "size"
                /\ UNCHANGED exc
    /\ UNCHANGED <<pdf_url, original_page_number, source, response, tmp_exists,
                   tmp_path, total_size, pages, page_num, page, analysis, result>>

\* lines 235-238: the Content-Length check
CheckSize ==
    /\ pc = "size"
    /\ IF source.content_length # None /\ source.content_length[1] > MAX_FILE_SIZE
       THEN RaiseInTry(HTTPException(413, <<"PDF file too large">>))
       ELSE /\ pc' = "tmpfile"
            /\ UNCHANGED exc
    /\ UNCHANGED <<pdf_url, original_page_number, source, response, tmp_exists,
                   tmp_path, total_size, pages, page_num, page, analysis, result>>

\* lines 241-242: NamedTemporaryFile(delete=False) creates the file
OpenTempFile ==
    /\ pc = "tmpfile"
    /\ tmp_exists' = TRUE
    /\ total_size' = 0
    /\ pc' = "stream"
    /\ UNCHANGED <<pdf_url, original_page_number, source, exc, response, tmp_path,
                   pages, page_num, page, analysis, result>>

\* lines 243-249: one turn of the chunk loop, or its end, where tmp_path is set
StreamChunk ==
    /\ pc = "stream"
    /\ LET remaining == source.body_len - total_size
           chunk == IF remaining < CHUNK_SIZE THEN remaining ELSE CHUNK_SIZE
       IN  IF chunk = 0
           THEN /\ tmp_path' = Some("tmp.pdf")
                /\ pc' = "open"
                /\ UNCHANGED <<total_size, exc>>
           ELSE /\ total_size' = total_size + chunk
                /\ UNCHANGED tmp_path
                /\ IF total_size' > MAX_FILE_SIZE
                   THEN RaiseInTry(HTTPException(413, <<"PDF file too large">>))
                   ELSE /\ pc' = "stream"
                        /\ UNCHANGED exc
    /\ UNCHANGED <<pdf_url, original_page_number, source, response, tmp_exists,
                   pages, page_num, page, analysis, result>>

\* line 243: iter_content raises while the body is read
StreamFault ==
    /\ pc = "stream"
    /\ \E e \in {Raise("ConnectionError", <<"Read timed out">>),
                 Raise("ChunkedEncodingError", <<"Connection broken">>)} :
           RaiseInTry(e)
    /\ UNCHANGED <<pdf_url, original_page_number, source, response, tmp_exists,
                   tmp_path, total_size, pages, page_num, page, analysis, result>>

\* lines 254-257: pdfplumber.open, which may reject the whole document
OpenPdf ==
    /\ pc = "open"
    /\ \/ /\ \E doc \in Documents : pages' = doc
          /\ result' = <<>>
          /\ page_num' = 0
          /\ pc' = "pages"
          /\ UNCHANGED exc
       \/ /\ RaiseInTry(Raise("PDFSyntaxError", <<"No /Root object! - Is this really a PDF?">>))
          /\ UNCHANGED <<pages, result, page_num>>
    /\ UNCHANGED <<pdf_url, original_page_number, source, response, tmp_exists,
                   tmp_path, total_size, page, analysis>>

\* line 263: page number from the override, else the 1-based index
PageNumberTruthy(opn, index) ==
    IF opn # None /\ opn[1] # 0 THEN opn[1] ELSE index + 1

PageNumber(opn, index) ==
    IF opn # None THEN opn[1] ELSE index + 1

\* lines 265-273: the report of one page
PageReport(a, url, opn, index) ==
    [page_url |-> url,
     page_number |-> PageNumber(opn, index),
     is_vector |-> a.is_vector,
     vector_type |-> GetVectorType(a),
     reason |-> a.reason,
     vector_elements |-> a.vector_elements,
     original_page_number |-> opn]

ProcessPageAbortOnFault ==
    /\ pc = "pages"
    /\ page_num < Len(pages)
    /\ page' = pages[page_num + 1]
    /\ IF Faulted(page')
       THEN /\ RaiseInTry(Raise("Exception", <<page'.fault>>))
            /\ UNCHANGED <<analysis, result, page_num>>
       ELSE /\ analysis' = analyze_vector_content(page')
            /\ result' = Append(result,
                                PageReport(analysis', pdf_url, original_page_number, page_num))
            /\ page_num' = page_num + 1
            /\ UNCHANGED <<pc, exc>>
    /\ UNCHANGED <<pdf_url, original_page_number, source, response, tmp_exists,
                   tmp_path, total_size, pages>>

ProcessPageSkipFaulted ==
    /\ pc = "pages"
    /\ page_num < Len(pages)
    /\ page' = pages[page_num + 1]
    /\ analysis' = analyze_vector_content(page')
    /\ result' = IF Faulted(page')
                 THEN result
                 ELSE Append(result,
                             PageReport(analysis', pdf_url, original_page_number, page_num))
    /\ page_num' = page_num + 1
    /\ UNCHANGED <<pc, pdf_url, original_page_number, source, exc, response, tmp_exists,
                   tmp_path, total_size, pages>>

\* lines 257-285: one turn of the page loop. analyze_vector_content catches
\* every fault itself, so the loop's own except clause is never entered.
ProcessPage ==
    /\ pc = "pages"
    /\ page_num < Len(pages)
    /\ page' = pages[page_num + 1]
    /\ analysis' = analyze_vector_content(page')
    /\ result' = Append(result,
                        PageReport(analysis', pdf_url, original_page_number, page_num))
    /\ page_num' = page_num + 1
    /\ UNCHANGED <<pc, pdf_url, original_page_number, source, exc, response, tmp_exists,
                   tmp_path, total_size, pages>>

\* [p["page_number"] for p in reports]
RECURSIVE PageNumbersOf(_)
PageNumbersOf(reports) ==
    IF Len(reports) = 0 THEN <<>>
    ELSE <<reports[1].page_number>> \o PageNumbersOf(Tail(reports))

IsVectorReport(p) == p.is_vector

\* lines 287-296: the summary and the returned body
Summarize ==
    /\ pc = "pages"
    /\ page_num = Len(pages)
    /\ LET vector_pages == SelectSeq(result, IsVectorReport)
       IN  response' = [status |-> 200, detail |-> <<>>, success |-> TRUE,
                        page_count |-> Len(result),
                        vector_pages_count |-> Len(vector_pages),
                        vector_pages |-> PageNumbersOf(vector_pages),
                        pages |-> result]
    /\ pc' = "finally"
    /\ UNCHANGED <<pdf_url, original_page_number, source, exc, tmp_exists, tmp_path,
                   total_size, pages, page_num, page, analysis, result>>

\* lines 298-316: the matching except clause raises the HTTPException that
\* becomes the response
Except ==
    /\ pc = "except"
    /\ response' = ExceptClauses(exc)
    /\ pc' = "finally"
    /\ UNCHANGED <<pdf_url, original_page_number, source, exc, tmp_exists, tmp_path,
                   total_size, pages, page_num, page, analysis, result>>

\* lines 318-321: the cleanup
Finally ==
    /\ pc = "finally"
    /\ tmp_exists' = IF tmp_path # None /\ tmp_exists THEN FALSE ELSE tmp_exists
    /\ pc' = "done"
    /\ UNCHANGED <<pdf_url, original_page_number, source, exc, response, tmp_path,
                   total_size, pages, page_num, page, analysis, result>>

Next ==
    \/ ValidateUrl
    \/ Download
    \/ CheckStatus
    \/ CheckSize
    \/ OpenTempFile
    \/ StreamChunk
    \/ StreamFault
    \/ OpenPdf
    \/ ProcessPage
    \/ Summarize
    \/ Except
    \/ Finally

Spec == Init /\ [][Next]_vars

-----------------------------------------------------------------------------
(* Properties of the classifier, checked under SpecClassify                 *)

Range(s) == {s[i] : i \in 1..Len(s)}

ClaimTotal(p) == p.lines + p.curves + p.rects

\* ratio > 0.5, with ratio = total / (textLength / 100), or total without text
ClaimRatioAboveHalf(p) ==
    IF p.text_length = 0 THEN 2 * ClaimTotal(p) > 1
    ELSE 200 * ClaimTotal(p) > p.text_length

\* ratio < 0.1
ClaimRatioBelowTenth(p) ==
    IF p.text_length = 0 THEN 10 * ClaimTotal(p) < 1
    ELSE 1000 * ClaimTotal(p) < p.text_length

ClaimLayoutOnly(p) ==
    ClaimTotal(p) < 5 /\ p.text_length > 500 /\ ClaimRatioBelowTenth(p)

ClaimMatched(p) ==
    {c \in {"illustration", "technical_drawing", "complex_graphics", "diagram"} :
        \/ /\ c = "illustration"
           /\ ClaimTotal(p) >= 5
           /\ (ClaimRatioAboveHalf(p) \/ p.text_length < 200)
        \/ /\ c = "technical_drawing"
           /\ p.lines >= 10
           /\ p.curves + p.rects >= 2
        \/ /\ c = "complex_graphics"
           /\ (p.curves >= 5 \/ (p.curves >= 2 /\ p.lines >= 5))
        \/ /\ c = "diagram"
           /\ p.rects >= 3
           /\ p.lines >= 3
           /\ ClaimTotal(p) >= 8}

\* C1: for a page with at least one line, curve or rectangle that is not
\* layout-only, is_vector is the disjunction of the four category tests; the
\* reported vector types are exactly the matched categories (none reported
\* when is_vector is false), the reason lists them, and the reason is
\* "No significant vector content" when no category matched.
C1_CategoriesDecideIsVector ==
    (pc = "analyzed" /\ ClaimTotal(page) >= 1 /\ ~ClaimLayoutOnly(page)) =>
        LET matched == ClaimMatched(page)
            types == GetVectorType(analysis)
        IN  /\ analysis.is_vector = (matched # {})
            /\ analysis.is_vector =>
                  /\ types # None
                  /\ Range(types[1]) = matched
                  /\ Len(types[1]) = Cardinality(matched)
                  /\ analysis.reason[1] = "Vector content detected: "
                  /\ matched \subseteq Range(analysis.reason)
            /\ ~analysis.is_vector =>
                  /\ types = None
                  /\ analysis.reason = <<"No significant vector content">>

\* Scenario B of the spec has been classified: a technical drawing.
C1_Witness ==
    /\ pc = "analyzed"
    /\ page = Metrics(12, 3, 1, 50, 50)
    /\ analysis.is_vector
    /\ "technical_drawing" \in Range(analysis.vector_type[1])

\* C2: for a page with at least one graphic element whose metrics satisfy the
\* layout-only predicate, the result is is_vector = false with the layout-only
\* reason, whatever categories the same metrics match.
C2_LayoutOnlyWins ==
    (pc = "analyzed" /\ ClaimTotal(page) >= 1 /\ ClaimLayoutOnly(page)) =>
        /\ analysis.is_vector = FALSE
        /\ analysis.reason = <<"Likely layout elements only, not vector illustrations">>
        /\ GetVectorType(analysis) = None

\* A page of running text with three layout primitives has been classified.
C2_Witness ==
    /\ pc = "analyzed"
    /\ page = Metrics(2, 0, 1, 50, 4001)
    /\ analysis.reason = <<"Likely layout elements only, not vector illustrations">>

\* C3: a page without lines, curves and rectangles is reported is_vector =
\* false with the "text only" reason, for every char count and text length,
\* and with the counts alone: no total, ratio or category was evaluated.
C3_TextOnlyNeverVector ==
    (pc = "analyzed" /\ page.lines = 0 /\ page.curves = 0 /\ page.rects = 0) =>
        /\ analysis.is_vector = FALSE
        /\ analysis.reason = <<"No vector graphics found - text only">>
        /\ "vector_type" \notin DOMAIN analysis
        /\ DOMAIN analysis.vector_elements =
               {"text_chars", "lines", "curves", "rectangles", "text_length"}
        /\ analysis.vector_elements.text_chars = page.chars
        /\ analysis.vector_elements.text_length = page.text_length

\* Scenario A of the spec has been classified.
C3_Witness ==
    /\ pc = "analyzed"
    /\ page = Metrics(0, 0, 0, 50, 300)
    /\ analysis.reason = <<"No vector graphics found - text only">>

-----------------------------------------------------------------------------
(* Properties of the request handler, checked under Spec                    *)

\* session.get returned a response with this status
SourceAnswered(status_code) ==
    /\ is_valid_url(pdf_url)
    /\ ~SessionGet(source, pdf_url).raised
    /\ SessionGet(source, pdf_url).status_code = status_code

\* C4: a source status of 404 gives an endpoint status of 404 with a detail
\* mentioning "not found", and a source status of 403 gives 403.
C4_SourceStatusPassedOn ==
    /\ (pc = "done" /\ SourceAnswered(404)) =>
           /\ response.status = 404
           /\ response.detail = <<"PDF not found at the provided URL">>
    /\ (pc = "done" /\ SourceAnswered(403)) => response.status = 403

\* The payload is over the ceiling: by its declared Content-Length, or by
\* the running total of the streamed bytes.
PayloadTooLarge ==
    /\ SourceAnswered(200)
    /\ \/ source.content_length # None /\ source.content_length[1] > MAX_FILE_SIZE
       \/ total_size > MAX_FILE_SIZE

\* C5: whenever the payload exceeds the ceiling the endpoint answers 413.
C5_TooLargeIs413 ==
    (pc = "done" /\ PayloadTooLarge) => response.status = 413

\* C6: when the response is produced, no temporary file of the request is
\* left on disk.
C6_NoTempFileLeft ==
    pc = "done" => ~tmp_exists

\* C7: when a page of the document faults, the request still succeeds, every
\* page is reported, the faulted page with is_vector = false and a reason
\* naming the fault, and every other page with the result it has on its own.
C7_PageFaultIsLocal ==
    (pc = "done" /\ \E i \in 1..Len(pages) : Faulted(pages[i])) =>
        /\ response.status = 200
        /\ response.success
        /\ Len(response.pages) = Len(pages)
        /\ \A i \in 1..Len(pages) :
              IF Faulted(pages[i])
              THEN /\ response.pages[i].is_vector = FALSE
                   /\ pages[i].fault \in Range(response.pages[i].reason)
              ELSE /\ response.pages[i].is_vector = (ClaimMatched(pages[i]) # {}
                                                     /\ ~ClaimLayoutOnly(pages[i]))
                   /\ response.pages[i].reason = analyze_vector_content(pages[i]).reason
                   /\ response.pages[i].vector_elements
                          = analyze_vector_content(pages[i]).vector_elements

\* A document whose first page faulted and whose second page is a technical
\* drawing has been answered.
C7_Witness ==
    /\ pc = "done"
    /\ Len(pages) = 2
    /\ Faulted(pages[1])
    /\ pages[2] = Metrics(12, 3, 1, 50, 50)
    /\ response.success
    /\ response.pages[2].is_vector

\* the report r is the report of page p
ReportsPage(r, p) ==
    IF Faulted(p)
    THEN r.vector_elements = [error |-> p.fault]
    ELSE /\ "lines" \in DOMAIN r.vector_elements
         /\ r.vector_elements.lines = p.lines
         /\ r.vector_elements.curves = p.curves
         /\ r.vector_elements.rectangles = p.rects
         /\ r.vector_elements.text_chars = p.chars
         /\ r.vector_elements.text_length = p.text_length

\* C8: in a successful response, pages has one entry per page of the
\* document, the i-th entry reporting the i-th page, and page_count is the
\* number of pages, wherever pages faulted.
C8_OneReportPerPageInOrder ==
    (pc = "done" /\ response.success) =>
        /\ response.page_count = Len(pages)
        /\ Len(response.pages) = Len(pages)
        /\ \A i \in 1..Len(pages) : ReportsPage(response.pages[i], pages[i])

\* A two-page document with a drawing first and a faulted page last has
\* been answered.
C8_Witness ==
    /\ pc = "done"
    /\ response.success
    /\ Len(pages) = 2
    /\ pages[1] = Metrics(12, 3, 1, 50, 50)
    /\ Faulted(pages[2])
    /\ response.page_count = 2

\* the page numbers of the reports from index i on that have is_vector
RECURSIVE VectorNumbersFrom(_, _)
VectorNumbersFrom(reports, i) ==
    IF i > Len(reports) THEN <<>>
    ELSE (IF reports[i].is_vector THEN <<reports[i].page_number>> ELSE <<>>)
         \o VectorNumbersFrom(reports, i + 1)

C10_StatusByKindOfFailure ==
    (pc = "done" /\ exc.cls \in RequestExceptionClasses) =>
        response.status =
            IF exc.cls \in TimeoutClasses THEN 408
            ELSE IF exc.cls \in ConnectionErrorClasses THEN 502
            ELSE 400

====
